---- MODULE Spec2Model ----
\* The ledger of internal/store (store.go) on the schema of
\* migrations/0001_init.sql: Store.Transfer run by concurrent callers against
\* a store with READ COMMITTED transactions and row locks (SELECT ... FOR UPDATE).
\*
\* Money is counted in steps of 10^-11: a decimal.Decimal of the Go code is an
\* integer number of such steps, a NUMERIC(30,10) column holds multiples of
\* ScaleStep only and rounds what is written to it.
EXTENDS Integers, Sequences, FiniteSets, TLC

\* ---------------------------------------------------------------- bounds
\* Concurrent callers of Store.Transfer.
Procs == {1, 2}
\* Account ids the callers name: 2 and 3 are created at the start, 1 and 4
\* never are.
Ids == {1, 2, 3, 4}
\* Amounts the callers pass, in steps of 10^-11: none, negative, half a column
\* unit, one column unit, three column units.
Amounts == {-10, 0, 5, 10, 30}
\* The calls Transfer(src, dst, amount) the callers make. Between the two
\* accounts: half a unit and one unit in both directions, three units (more
\* than it holds) out of 3, and the non-positive amounts from 2 to 3. One
\* unit between account 2 and each missing id (a missing source, a missing
\* destination, below and above the id of the account) and from one missing
\* id to the other. From an id to itself, with and without an account: one
\* unit, and a non-positive amount.
Requests ==
    {<<s, d, a>> \in Ids \X Ids \X Amounts :
        \/ {s, d} = {2, 3} /\ (a \in {5, 10} \/ (s = 2 /\ a <= 0) \/ (s = 3 /\ a = 30))
        \/ a = 10 /\ s # d /\ 3 \notin {s, d} /\ <<s, d>> # <<4, 1>>
        \/ s = d /\ <<s, a>> \in {<<1, 0>>, <<1, 10>>, <<2, -10>>, <<2, 10>>}}
\* Calls of Transfer started in one behaviour.
MaxCalls == 2

\* One unit of a NUMERIC(30,10) column (10^-10), in steps of 10^-11.
ScaleStep == 10

NoProc == 0

\* The accounts created before the transfers start: 2 and 3; 1 and 4 do not exist.
InitialAccounts == [id \in {2, 3} |-> IF id = 2 THEN 20 ELSE 10]

\* Calls of the store a run makes when CreateAccount and GetAccount are
\* called as well: one more than MaxCalls, so that an account can be
\* created, transferred from and read.
MaxStoreCalls == 3

\* Ids CreateAccount and GetAccount are called with: 1 has no account at the
\* start, 2 has one.
AccountIds == {1, 2}

\* Initial balances CreateAccount is called with, in steps of 10^-11: negative
\* on the column's scale (-10), negative below it (-4), positive below the
\* scale (5) and on it (20).
InitialBalances == {-10, -4, 5, 20}

\* The calls CreateAccount(id, initial) made: every balance for the id
\* without an account, one for the id that has one.
CreateRequests ==
    {<<id, b>> \in AccountIds \X InitialBalances : id = 1 \/ b = 20}

\* Transfers made next to the account calls: one column unit to id 1 and to
\* account 3, and to account 3 an amount the column rounds to zero (4).
StoreRequests == {<<2, 1, 10>>, <<2, 3, 10>>, <<2, 3, 4>>}

\* Bodies of POST /transactions as <<source_account_id,
\* destination_account_id, amount>>; a missing field decodes to zero. The
\* first seven break one or more rules of Validate, the last three pass it:
\* a transfer that succeeds, one the source cannot fund, one from an id
\* without an account.
TransactionBodies ==
    {<<0, 2, 10>>, <<2, 0, 10>>, <<0, 0, 0>>, <<2, 2, 10>>, <<2, 2, 0>>,
     <<2, 3, 0>>, <<2, 3, -10>>,
     <<2, 3, 10>>, <<3, 2, 30>>, <<1, 2, 10>>}

\* Four accounts, for transfers over the disjoint pairs {1, 2} and {3, 4}.
FourAccounts == [id \in Ids |-> IF id \in {1, 3} THEN 10 ELSE 20]

\* Transfers inside the pair {1, 2} and inside the pair {3, 4}: funded, not
\* funded, and finer than the column's scale.
DisjointRequests ==
    {<<1, 2, 10>>, <<1, 2, 30>>, <<2, 1, 5>>, <<3, 4, 10>>, <<3, 4, 30>>, <<4, 3, 5>>}

\* A body that json.Decoder rejects.
Malformed == <<>>

\* HTTP requests a run serves.
MaxRequests == 2

\* Bodies of POST /accounts as <<account_id, initial_balance>>.
AccountBodies ==
    {<<0, 20>>, <<0, -10>>, <<1, -10>>, <<1, -4>>, <<1, 0>>, <<1, 20>>, <<2, 20>>}

\* ---------------------------------------------------------------- state
VARIABLES
    accounts,      \* committed rows of table accounts: id -> balance
    transactions,  \* committed rows of table transactions, in commit order
    nextSeq,       \* the BIGSERIAL sequence of transactions.id
    rowLock,       \* row lock of each accounts row: the holding caller or NoProc
    pc,            \* position of each caller inside Transfer
    srcID, dstID, amount,   \* arguments of each caller's running call
    i,             \* index of the locking loop into ids
    balances,      \* the Go map balances of the running call
    txAccounts,    \* uncommitted UPDATEs of the caller's transaction
    txRows,        \* uncommitted INSERTs into transactions of the caller's transaction
    result,        \* what the last call returned
    faultAt,       \* the storage step of the call that failed, or "none"
    calls,         \* calls started so far
    callNo,        \* how many calls each caller has started
    created,       \* balances the accounts were created with
    op,            \* the store method of each caller's last call
    accountID, initial,     \* arguments of a caller's CreateAccount / GetAccount
    balance,       \* the decimal GetAccount returned
    request,       \* the body of the HTTP request a caller handles
    status,        \* the status code written to the response, 0 before it is written
    requests       \* HTTP requests taken so far

\* What a call of the store's account methods sets.
acctVars == <<accountID, initial, balance>>

\* The state of the HTTP handlers.
apiVars == <<request, status, requests>>

vars == <<accounts, transactions, nextSeq, rowLock, pc, srcID, dstID, amount, i,
          balances, txAccounts, txRows, result, faultAt, calls, callNo,
          created, op, accountID, initial, balance, request, status, requests>>

Empty == [x \in {} |-> 0]

\* accounts.balance NUMERIC(30,10): a written value is rounded to the
\* column's scale, ties away from zero.
RoundToScale(x) ==
    IF x >= 0 THEN ((2 * x + ScaleStep) \div (2 * ScaleStep)) * ScaleStep
              ELSE -(((2 * (-x) + ScaleStep) \div (2 * ScaleStep)) * ScaleStep)

\* CHECK (balance >= 0) of table accounts.
BalanceCheck(b) == b >= 0

\* Table transactions without its CHECK.
AmountCheck_None(a) == TRUE

\* CHECK (amount > 0) of table transactions.
AmountCheck(a) == a > 0

\* The ids in request order, source first: what the locking loop would walk
\* without the sort.
SortedIds_RequestOrder(s, d) == <<s, d>>

\* sort.Slice(ids, ids[i] < ids[j]) on {srcID, dstID}.
SortedIds(s, d) == IF s < d THEN <<s, d>> ELSE <<d, s>>

\* A lock on the whole table instead of the row.
RowLockFree_TableLock(id, p) == \A x \in Ids : rowLock[x] \in {NoProc, p}

\* A plain SELECT: the read does not wait for the row lock.
RowLockFree_NoWait(id, p) == TRUE

\* SELECT ... FOR UPDATE waits while another transaction holds the row lock.
RowLockFree(id, p) == rowLock[id] \in {NoProc, p}

\* The funds check refusing an amount equal to the balance as well.
InsufficientFunds_OrEqual(srcBal, amt) == srcBal <= amt

\* The funds check left out.
InsufficientFunds_Never(srcBal, amt) == FALSE

\* srcBal.LessThan(amount)
InsufficientFunds(srcBal, amt) == srcBal < amt

NewSrc(srcBal, amt) == srcBal - amt
NewDst(dstBal, amt) == dstBal + amt

\* A row of table transactions. id, src, dst, amount, status and error are its
\* columns (amount NUMERIC(30,10) is rounded like a balance); by, call and
\* requested record which call inserted the row and the amount it was given.
FailedRow(p, msg) ==
    [id |-> nextSeq, src |-> srcID[p], dst |-> dstID[p],
     amount |-> RoundToScale(amount[p]), status |-> "failed", error |-> msg,
     by |-> p, call |-> callNo[p], requested |-> amount[p]]

\* The row's id taken from a counter of the caller instead of the table's
\* sequence.
SucceededRow_CallerCounter(p) ==
    [id |-> callNo[p], src |-> srcID[p], dst |-> dstID[p],
     amount |-> RoundToScale(amount[p]), status |-> "succeeded", error |-> "null",
     by |-> p, call |-> callNo[p], requested |-> amount[p]]

SucceededRow(p) ==
    [id |-> nextSeq, src |-> srcID[p], dst |-> dstID[p],
     amount |-> RoundToScale(amount[p]), status |-> "succeeded", error |-> "null",
     by |-> p, call |-> callNo[p], requested |-> amount[p]]

\* A missing row read as a balance of zero instead of pgx.ErrNoRows.
ReadBalance_ZeroIfMissing(id) ==
    [found |-> TRUE, bal |-> IF id \in DOMAIN accounts THEN accounts[id] ELSE 0]

\* row.Scan(&balStr) of SELECT balance::text ... WHERE account_id = id:
\* pgx.ErrNoRows when the row is missing, else the committed balance.
ReadBalance(id) ==
    [found |-> id \in DOMAIN accounts,
     bal |-> IF id \in DOMAIN accounts THEN accounts[id] ELSE 0]

\* The end of a transaction leaves its row locks in place.
Released_KeepsLocks(p) == rowLock

\* Locks a transaction holds are released when it ends.
Released(p) == [id \in Ids |-> IF rowLock[id] = p THEN NoProc ELSE rowLock[id]]

\* The store with the accounts acc created and nothing else done.
InitWith(acc) ==
    /\ accounts = acc
    /\ created = accounts
    /\ transactions = <<>>
    /\ nextSeq = 1
    /\ rowLock = [id \in Ids |-> NoProc]
    /\ pc = [p \in Procs |-> "idle"]
    /\ srcID = [p \in Procs |-> 0]
    /\ dstID = [p \in Procs |-> 0]
    /\ amount = [p \in Procs |-> 0]
    /\ i = [p \in Procs |-> 0]
    /\ balances = [p \in Procs |-> Empty]
    /\ txAccounts = [p \in Procs |-> Empty]
    /\ txRows = [p \in Procs |-> <<>>]
    /\ result = [p \in Procs |-> "none"]
    /\ faultAt = [p \in Procs |-> "none"]
    /\ calls = 0
    /\ callNo = [p \in Procs |-> 0]
    /\ op = [p \in Procs |-> "none"]
    /\ accountID = [p \in Procs |-> 0]
    /\ initial = [p \in Procs |-> 0]
    /\ balance = [p \in Procs |-> 0]
    /\ request = [p \in Procs |-> [handler |-> "none"]]
    /\ status = [p \in Procs |-> 0]
    /\ requests = 0

Init == InitWith(InitialAccounts)

\* The transaction of p has ended and Transfer returns: its uncommitted writes
\* and the locals of the call are gone.
NoTx(p) ==
    /\ txAccounts' = [txAccounts EXCEPT ![p] = Empty]
    /\ txRows' = [txRows EXCEPT ![p] = <<>>]
    /\ i' = [i EXCEPT ![p] = 0]
    /\ balances' = [balances EXCEPT ![p] = Empty]

\* The same-account short-circuit left out.
SameAccount_Never(s, d) == FALSE

\* srcID == dstID
SameAccount(s, d) == s = d

\* Only a negative amount refused: zero passes.
NonPositive_OnlyNegative(a) == a < 0

\* amount.LessThanOrEqual(decimal.Zero)
NonPositive(a) == a <= 0

\* Transfer, lines 184-193: the argument checks before any storage access.
Call(p, s, d, a) ==
    /\ pc[p] \in {"idle", "done"}
    /\ calls < MaxCalls
    /\ calls' = calls + 1
    /\ callNo' = [callNo EXCEPT ![p] = @ + 1]
    /\ srcID' = [srcID EXCEPT ![p] = s]
    /\ dstID' = [dstID EXCEPT ![p] = d]
    /\ amount' = [amount EXCEPT ![p] = a]
    /\ i' = [i EXCEPT ![p] = 0]
    /\ balances' = [balances EXCEPT ![p] = Empty]
    /\ faultAt' = [faultAt EXCEPT ![p] = "none"]
    /\ op' = [op EXCEPT ![p] = "transfer"]
    /\ IF NonPositive(a)
         THEN /\ result' = [result EXCEPT ![p] = "invalid"]
              /\ pc' = [pc EXCEPT ![p] = "done"]
         ELSE IF SameAccount(s, d)
           THEN /\ result' = [result EXCEPT ![p] = "ok"]
                /\ pc' = [pc EXCEPT ![p] = "done"]
           ELSE /\ result' = [result EXCEPT ![p] = "none"]
                /\ pc' = [pc EXCEPT ![p] = "begin"]
    /\ UNCHANGED <<accounts, transactions, nextSeq, rowLock, txAccounts, txRows,
                   created, acctVars>>

\* s.pool.Begin succeeds; the deferred Rollback is registered.
Begin(p) ==
    /\ pc[p] = "begin"
    /\ pc' = [pc EXCEPT ![p] = "select"]
    /\ i' = [i EXCEPT ![p] = 1]
    /\ UNCHANGED <<accounts, transactions, nextSeq, rowLock, srcID, dstID, amount,
                   balances, txAccounts, txRows, result, faultAt, calls, callNo, created>>
    /\ UNCHANGED <<op, acctVars, apiVars>>

\* _, _ = tx.Exec(ctx, INSERT INTO transactions ... 'failed', msg) followed by
\* return res: the INSERT runs in the open transaction and its error is
\* dropped, so whether the statement faults (the deadline expires, the
\* connection breaks) or not, the call goes on to return res.
InsertFailed(p, msg, res) ==
    /\ \E fault \in BOOLEAN :
          /\ txRows' = [txRows EXCEPT ![p] =
                IF ~fault /\ AmountCheck(RoundToScale(amount[p]))
                  THEN Append(@, FailedRow(p, msg))
                  ELSE @]
          /\ nextSeq' = IF fault THEN nextSeq ELSE nextSeq + 1
          /\ faultAt' = [faultAt EXCEPT ![p] = IF fault THEN "insertfailed" ELSE @]
    /\ result' = [result EXCEPT ![p] = res]
    /\ pc' = [pc EXCEPT ![p] = "rollback"]

\* One pass of the loop over ids: SELECT balance ... FOR UPDATE of ids[i].
\* A missing row takes no lock: the failed row is inserted in the open
\* transaction (its error dropped) and the call returns ErrAccountNotFound.
SelectForUpdate(p) ==
    /\ pc[p] = "select"
    /\ LET id == SortedIds(srcID[p], dstID[p])[i[p]] IN
       IF ~ReadBalance(id).found
         THEN /\ InsertFailed(p, "account not found", "notfound")
              /\ UNCHANGED <<rowLock, balances, i>>
         ELSE /\ RowLockFree(id, p)
              /\ rowLock' = [rowLock EXCEPT ![id] = p]
              /\ balances' = [balances EXCEPT ![p] =
                    [x \in DOMAIN @ \cup {id} |-> IF x = id THEN ReadBalance(id).bal ELSE @[x]]]
              /\ i' = [i EXCEPT ![p] = @ + 1]
              /\ pc' = [pc EXCEPT ![p] = IF i[p] = 2 THEN "funds" ELSE "select"]
              /\ UNCHANGED <<txRows, nextSeq, result, faultAt>>
    /\ UNCHANGED <<accounts, transactions, srcID, dstID, amount, txAccounts,
                   calls, callNo, created>>
    /\ UNCHANGED <<op, acctVars, apiVars>>

\* Lines 229-246: map the balances to source and destination, check the funds.
Funds(p) ==
    /\ pc[p] = "funds"
    /\ LET ok1 == srcID[p] \in DOMAIN balances[p]
           ok2 == dstID[p] \in DOMAIN balances[p]
       IN
       IF ~ok1 \/ ~ok2
         THEN InsertFailed(p, "account not found", "notfound")
         ELSE IF InsufficientFunds(balances[p][srcID[p]], amount[p])
           THEN InsertFailed(p, "insufficient funds", "insufficient")
           ELSE /\ pc' = [pc EXCEPT ![p] = "updsrc"]
                /\ UNCHANGED <<txRows, nextSeq, result, faultAt>>
    /\ UNCHANGED <<accounts, transactions, rowLock, srcID, dstID, amount, i,
                   balances, txAccounts, calls, callNo, created>>
    /\ UNCHANGED <<op, acctVars, apiVars>>

\* UPDATE accounts SET balance = v WHERE account_id = id, in p's transaction:
\* the value is rounded to the column's scale and must pass the CHECK.
Update(p, id, v, next) ==
    IF BalanceCheck(RoundToScale(v))
      THEN /\ txAccounts' = [txAccounts EXCEPT ![p] =
                 [x \in DOMAIN @ \cup {id} |-> IF x = id THEN RoundToScale(v) ELSE @[x]]]
           /\ pc' = [pc EXCEPT ![p] = next]
           /\ UNCHANGED <<result, faultAt>>
      ELSE /\ result' = [result EXCEPT ![p] = "error"]
           /\ faultAt' = [faultAt EXCEPT ![p] = "constraint"]
           /\ pc' = [pc EXCEPT ![p] = "rollback"]
           /\ UNCHANGED txAccounts

UpdateSrc(p) ==
    /\ pc[p] = "updsrc"
    /\ Update(p, srcID[p], NewSrc(balances[p][srcID[p]], amount[p]), "upddst")
    /\ UNCHANGED <<accounts, transactions, nextSeq, rowLock, srcID, dstID, amount,
                   i, balances, txRows, calls, callNo, created>>
    /\ UNCHANGED <<op, acctVars, apiVars>>

UpdateDst(p) ==
    /\ pc[p] = "upddst"
    /\ Update(p, dstID[p], NewDst(balances[p][dstID[p]], amount[p]), "insert")
    /\ UNCHANGED <<accounts, transactions, nextSeq, rowLock, srcID, dstID, amount,
                   i, balances, txRows, calls, callNo, created>>
    /\ UNCHANGED <<op, acctVars, apiVars>>

\* INSERT of the succeeded row; the sequence advances even if the CHECK
\* (amount > 0) rejects the rounded amount.
InsertSucceeded(p) ==
    /\ pc[p] = "insert"
    /\ nextSeq' = nextSeq + 1
    /\ IF AmountCheck(RoundToScale(amount[p]))
         THEN /\ txRows' = [txRows EXCEPT ![p] = Append(@, SucceededRow(p))]
              /\ pc' = [pc EXCEPT ![p] = "commit"]
              /\ UNCHANGED <<result, faultAt>>
         ELSE /\ result' = [result EXCEPT ![p] = "error"]
              /\ faultAt' = [faultAt EXCEPT ![p] = "constraint"]
              /\ pc' = [pc EXCEPT ![p] = "rollback"]
              /\ UNCHANGED txRows
    /\ UNCHANGED <<accounts, transactions, rowLock, srcID, dstID, amount, i,
                   balances, txAccounts, calls, callNo, created>>
    /\ UNCHANGED <<op, acctVars, apiVars>>

\* tx.Commit: the transaction's writes become the committed state at once.
Commit(p) ==
    /\ pc[p] = "commit"
    /\ accounts' = [id \in DOMAIN accounts |->
                      IF id \in DOMAIN txAccounts[p] THEN txAccounts[p][id]
                                                     ELSE accounts[id]]
    /\ transactions' = transactions \o txRows[p]
    /\ rowLock' = Released(p)
    /\ NoTx(p)
    /\ result' = [result EXCEPT ![p] = "ok"]
    /\ pc' = [pc EXCEPT ![p] = "done"]
    /\ UNCHANGED <<nextSeq, srcID, dstID, amount, faultAt, calls, callNo, created>>
    /\ UNCHANGED <<op, acctVars, apiVars>>

\* The deferred call ends the transaction by committing what it wrote so far
\* instead of dropping it.
Rollback_Commits(p) ==
    /\ pc[p] = "rollback"
    /\ accounts' = [id \in DOMAIN accounts |->
                      IF id \in DOMAIN txAccounts[p] THEN txAccounts[p][id]
                                                     ELSE accounts[id]]
    /\ transactions' = transactions \o txRows[p]
    /\ rowLock' = Released(p)
    /\ NoTx(p)
    /\ pc' = [pc EXCEPT ![p] = "done"]
    /\ UNCHANGED <<nextSeq, srcID, dstID, amount, result, faultAt, calls, callNo,
                   created>>
    /\ UNCHANGED <<op, acctVars, apiVars>>

\* The deferred tx.Rollback on a return without commit: the transaction's
\* writes are dropped and its locks released.
Rollback(p) ==
    /\ pc[p] = "rollback"
    /\ rowLock' = Released(p)
    /\ NoTx(p)
    /\ pc' = [pc EXCEPT ![p] = "done"]
    /\ UNCHANGED <<accounts, transactions, nextSeq, srcID, dstID, amount, result,
                   faultAt, calls, callNo, created>>
    /\ UNCHANGED <<op, acctVars, apiVars>>

\* A storage step fails (the store faults or the context's deadline expires):
\* Begin, a SELECT, an UPDATE, the INSERT of the succeeded row, or Commit of
\* Transfer, the INSERT of CreateAccount, the SELECT of GetAccount.
\* The method returns the wrapped error; inside Transfer's transaction the
\* deferred Rollback runs first.
Fault(p) ==
    /\ pc[p] \in {"begin", "select", "updsrc", "upddst", "insert", "commit",
                  "create", "get"}
    /\ faultAt' = [faultAt EXCEPT ![p] = pc[p]]
    /\ result' = [result EXCEPT ![p] = "error"]
    /\ pc' = [pc EXCEPT ![p] = IF pc[p] \in {"begin", "create", "get"}
                                THEN "done" ELSE "rollback"]
    /\ UNCHANGED <<accounts, transactions, nextSeq, rowLock, srcID, dstID, amount,
                   i, balances, txAccounts, txRows, calls, callNo, created>>
    /\ UNCHANGED <<op, acctVars, apiVars>>

\* Store.CreateAccount is entered: it has no check of its own, the INSERT is
\* its first statement.
CallCreateAccount(p, id, b) ==
    /\ pc[p] \in {"idle", "done"}
    /\ calls < MaxStoreCalls
    /\ calls' = calls + 1
    /\ callNo' = [callNo EXCEPT ![p] = @ + 1]
    /\ op' = [op EXCEPT ![p] = "create"]
    /\ accountID' = [accountID EXCEPT ![p] = id]
    /\ initial' = [initial EXCEPT ![p] = b]
    /\ result' = [result EXCEPT ![p] = "none"]
    /\ faultAt' = [faultAt EXCEPT ![p] = "none"]
    /\ pc' = [pc EXCEPT ![p] = "create"]
    /\ UNCHANGED <<accounts, transactions, nextSeq, rowLock, srcID, dstID, amount,
                   i, balances, txAccounts, txRows, created, balance>>

\* The primary key left out: the INSERT replaces an existing row.
IsDuplicate_Never(id) == FALSE

\* account_id BIGINT PRIMARY KEY: a row with this id is already there.
IsDuplicate(id) == id \in DOMAIN accounts

\* The value column balance takes from the text initial.String().
StoredBalance(b) == RoundToScale(b)

\* INSERT INTO accounts (account_id, balance) VALUES ($1, $2), autocommitted.
\* The value is coerced to the column's scale, then the CHECK and the primary
\* key are enforced; an error of the statement is returned wrapped
\* ("create account: %w"): "duplicate" stands for the wrapped unique
\* violation, "error" for the wrapped check violation.
InsertAccount(p) ==
    /\ pc[p] = "create"
    /\ LET id == accountID[p]
           v == StoredBalance(initial[p])
       IN
       IF ~BalanceCheck(v)
         THEN /\ result' = [result EXCEPT ![p] = "error"]
              /\ faultAt' = [faultAt EXCEPT ![p] = "constraint"]
              /\ UNCHANGED <<accounts, created>>
         ELSE IF IsDuplicate(id)
           THEN /\ result' = [result EXCEPT ![p] = "duplicate"]
                /\ UNCHANGED <<accounts, created, faultAt>>
           ELSE /\ accounts' = [x \in DOMAIN accounts \cup {id} |->
                                  IF x = id THEN v ELSE accounts[x]]
                /\ created' = [x \in DOMAIN created \cup {id} |->
                                 IF x = id THEN v ELSE created[x]]
                /\ result' = [result EXCEPT ![p] = "ok"]
                /\ UNCHANGED faultAt
    /\ pc' = [pc EXCEPT ![p] = "done"]
    /\ UNCHANGED <<transactions, nextSeq, rowLock, srcID, dstID, amount, i,
                   balances, txAccounts, txRows, calls, callNo, op, acctVars,
                   apiVars>>

\* Store.GetAccount is entered.
CallGetAccount(p, id) ==
    /\ pc[p] \in {"idle", "done"}
    /\ calls < MaxStoreCalls
    /\ calls' = calls + 1
    /\ callNo' = [callNo EXCEPT ![p] = @ + 1]
    /\ op' = [op EXCEPT ![p] = "get"]
    /\ accountID' = [accountID EXCEPT ![p] = id]
    /\ balance' = [balance EXCEPT ![p] = 0]
    /\ result' = [result EXCEPT ![p] = "none"]
    /\ faultAt' = [faultAt EXCEPT ![p] = "none"]
    /\ pc' = [pc EXCEPT ![p] = "get"]
    /\ UNCHANGED <<accounts, transactions, nextSeq, rowLock, srcID, dstID, amount,
                   i, balances, txAccounts, txRows, created, initial>>

\* balance::text of a NUMERIC(30,10): the digits of the stored value down to
\* the column's last fractional digit, here as the count of such units.
BalanceText(b) == b \div ScaleStep

\* decimal.NewFromString(balStr): the exact value of the digits.
ParseBalance(txt) == txt * ScaleStep

\* The query reading what an open transaction has written.
Visible_Uncommitted(id) ==
    IF \E q \in Procs : id \in DOMAIN txAccounts[q]
      THEN txAccounts[CHOOSE q \in Procs : id \in DOMAIN txAccounts[q]][id]
      ELSE accounts[id]

\* What a statement outside any transaction sees of a row: its committed
\* value (READ COMMITTED); a plain SELECT does not wait for the row lock.
Visible(id) == accounts[id]

\* SELECT balance::text FROM accounts WHERE account_id = $1 and the Scan:
\* pgx.ErrNoRows gives (decimal.Zero, ErrAccountNotFound), else the text is
\* parsed and returned.
QueryAccount(p) ==
    /\ pc[p] = "get"
    /\ LET id == accountID[p] IN
       IF id \notin DOMAIN accounts
         THEN /\ result' = [result EXCEPT ![p] = "notfound"]
              /\ balance' = [balance EXCEPT ![p] = 0]
         ELSE /\ result' = [result EXCEPT ![p] = "ok"]
              /\ balance' = [balance EXCEPT ![p] = ParseBalance(BalanceText(Visible(id)))]
    /\ pc' = [pc EXCEPT ![p] = "done"]
    /\ UNCHANGED <<accounts, transactions, nextSeq, rowLock, srcID, dstID, amount,
                   i, balances, txAccounts, txRows, faultAt, calls, callNo,
                   created, op, accountID, initial, apiVars>>

Step(p) ==
    \/ Begin(p)
    \/ SelectForUpdate(p)
    \/ Funds(p)
    \/ UpdateSrc(p)
    \/ UpdateDst(p)
    \/ InsertSucceeded(p)
    \/ Commit(p)
    \/ Rollback(p)
    \/ Fault(p)

\* The statements of CreateAccount and GetAccount.
AccountStep(p) ==
    \/ InsertAccount(p)
    \/ QueryAccount(p)

\* The store's methods called directly, as the tests of the store do.
StoreTransfer(p, s, d, a) == Call(p, s, d, a) /\ UNCHANGED apiVars
StoreCreateAccount(p, id, b) == CallCreateAccount(p, id, b) /\ UNCHANGED apiVars
StoreGetAccount(p, id) == CallGetAccount(p, id) /\ UNCHANGED apiVars

Next ==
    \/ \E p \in Procs, r \in Requests : StoreTransfer(p, r[1], r[2], r[3])
    \/ \E p \in Procs : Step(p)

Spec == Init /\ [][Next]_vars

\* Every goroutine inside Transfer keeps being scheduled, and the store grants
\* a released row lock to a waiting SELECT ... FOR UPDATE.
SpecFair == Spec /\ \A p \in Procs : WF_vars(Step(p))

\* ---------------------------------------------------------------- HTTP
\* Everything but the handlers' own state.
storeVars == <<accounts, transactions, nextSeq, rowLock, pc, srcID, dstID,
               amount, i, balances, txAccounts, txRows, result, faultAt, calls,
               callNo, created, op, accountID, initial, balance>>

\* The amount rule left out of Validate.
ValidateTransaction_AnyAmount(s, d, a) ==
    IF s = 0 \/ d = 0 THEN "ErrInvalidAccountID"
    ELSE IF s = d THEN "ErrSameSourceDestination"
    ELSE "nil"

\* The rules of Validate checked in another order, the amount first.
ValidateTransaction_AmountFirst(s, d, a) ==
    IF ~(a > 0) THEN "ErrInvalidAmount"
    ELSE IF s = d THEN "ErrSameSourceDestination"
    ELSE IF s = 0 \/ d = 0 THEN "ErrInvalidAccountID"
    ELSE "nil"

\* TransactionRequest.Validate
ValidateTransaction(s, d, a) ==
    IF s = 0 \/ d = 0 THEN "ErrInvalidAccountID"
    ELSE IF s = d THEN "ErrSameSourceDestination"
    ELSE IF ~(a > 0) THEN "ErrInvalidAmount"
    ELSE "nil"

\* A zero balance treated like a negative one.
ValidateCreateAccount_ZeroRejected(id, b) ==
    IF id = 0 THEN "ErrInvalidAccountID"
    ELSE IF b <= 0 THEN "ErrInvalidInitialBalance"
    ELSE "nil"

\* CreateAccountRequest.Validate
ValidateCreateAccount(id, b) ==
    IF id = 0 THEN "ErrInvalidAccountID"
    ELSE IF b < 0 THEN "ErrInvalidInitialBalance"
    ELSE "nil"

\* A goroutine of the HTTP server is free to take a request: it is in no
\* store call and the response of its last request is written.
Free(p) ==
    /\ pc[p] \in {"idle", "done"}
    /\ request[p].handler = "none" \/ status[p] # 0
    /\ requests < MaxRequests

\* API.CreateTransaction up to the call of the store: a body that does not
\* decode or does not validate is answered with 400 and the handler returns;
\* otherwise store.Transfer is called with the fields of the body.
CreateTransaction(p, body) ==
    /\ Free(p)
    /\ requests' = requests + 1
    /\ request' = [request EXCEPT ![p] =
          [handler |-> "CreateTransaction", body |-> body,
           err |-> IF body = Malformed THEN "invalid JSON"
                   ELSE ValidateTransaction(body[1], body[2], body[3])]]
    /\ IF body = Malformed
         THEN /\ status' = [status EXCEPT ![p] = 400]
              /\ UNCHANGED storeVars
         ELSE IF ValidateTransaction(body[1], body[2], body[3]) # "nil"
           THEN /\ status' = [status EXCEPT ![p] = 400]
                /\ UNCHANGED storeVars
           ELSE /\ status' = [status EXCEPT ![p] = 0]
                /\ Call(p, body[1], body[2], body[3])

\* API.CreateAccount up to the call of the store.
CreateAccount(p, body) ==
    /\ Free(p)
    /\ requests' = requests + 1
    /\ request' = [request EXCEPT ![p] =
          [handler |-> "CreateAccount", body |-> body,
           err |-> IF body = Malformed THEN "invalid JSON"
                   ELSE ValidateCreateAccount(body[1], body[2])]]
    /\ IF body = Malformed
         THEN /\ status' = [status EXCEPT ![p] = 400]
              /\ UNCHANGED storeVars
         ELSE IF ValidateCreateAccount(body[1], body[2]) # "nil"
           THEN /\ status' = [status EXCEPT ![p] = 400]
                /\ UNCHANGED storeVars
           ELSE /\ status' = [status EXCEPT ![p] = 0]
                /\ CallCreateAccount(p, body[1], body[2])

\* Every error of Transfer answered 500, the sentinel errors included.
TransferStatus_NoSentinels(res) == IF res = "ok" THEN 200 ELSE 500

\* The switch of API.CreateTransaction on the error Transfer returned.
TransferStatus(res) ==
    CASE res = "ok" -> 200
      [] res = "notfound" -> 404
      [] res = "insufficient" -> 409
      [] OTHER -> 500

\* API.CreateAccount: 201 when the store returned nil, else 500.
CreateAccountStatus(res) == IF res = "ok" THEN 201 ELSE 500

\* The store has returned to the handler, which writes the response.
Respond(p) ==
    /\ request[p].handler # "none"
    /\ status[p] = 0
    /\ pc[p] = "done"
    /\ status' = [status EXCEPT ![p] =
          IF request[p].handler = "CreateTransaction"
            THEN TransferStatus(result[p])
            ELSE CreateAccountStatus(result[p])]
    /\ UNCHANGED <<storeVars, request, requests>>

\* Requests served concurrently by the handlers over one store.
NextApi ==
    \/ \E p \in Procs, body \in TransactionBodies \cup {Malformed} :
          CreateTransaction(p, body)
    \/ \E p \in Procs, body \in AccountBodies \cup {Malformed} :
          CreateAccount(p, body)
    \/ \E p \in Procs : Step(p)
    \/ \E p \in Procs : InsertAccount(p)
    \/ \E p \in Procs : Respond(p)

SpecApi == Init /\ [][NextApi]_vars

\* Transfer, CreateAccount and GetAccount called concurrently on one store.
NextStore ==
    \/ \E p \in Procs, r \in StoreRequests : StoreTransfer(p, r[1], r[2], r[3])
    \/ \E p \in Procs, r \in CreateRequests : StoreCreateAccount(p, r[1], r[2])
    \/ \E p \in Procs, id \in AccountIds : StoreGetAccount(p, id)
    \/ \E p \in Procs : Step(p)
    \/ \E p \in Procs : AccountStep(p)

SpecStore == Init /\ [][NextStore]_vars

\* Transfers over two disjoint pairs of accounts.
InitDisjoint == InitWith(FourAccounts)

NextDisjoint ==
    \/ \E p \in Procs, r \in DisjointRequests : StoreTransfer(p, r[1], r[2], r[3])
    \/ \E p \in Procs : Step(p)

SpecDisjoint == InitDisjoint /\ [][NextDisjoint]_vars

\* ---------------------------------------------------------------- properties
InCall(p) == pc[p] \notin {"idle", "done"}
Faulted(p) == faultAt[p] # "none"
Returned(p) == pc[p] = "done"

RECURSIVE SumOver(_, _)
SumOver(f, S) ==
    IF S = {} THEN 0
    ELSE LET x == CHOOSE y \in S : TRUE IN f[x] + SumOver(f, S \ {x})

Total(f) == SumOver(f, DOMAIN f)

\* Committed rows of transactions inserted by p's latest call.
RowsOfCall(p) ==
    {k \in 1..Len(transactions) :
        transactions[k].by = p /\ transactions[k].call = callNo[p]}

\* The succeeded transfers out of, and into, account a.
SucceededOut(a) ==
    {k \in 1..Len(transactions) :
        transactions[k].status = "succeeded" /\ transactions[k].src = a}

SucceededIn(a) ==
    {k \in 1..Len(transactions) :
        transactions[k].status = "succeeded" /\ transactions[k].dst = a}

\* The amounts the succeeded transfers out of account a were called with.
RequestedOut(a) ==
    SumOver([k \in 1..Len(transactions) |-> transactions[k].requested],
            SucceededOut(a))

\* C1 (conservation): in every committed state the sum of all account
\* balances equals the sum of the balances the accounts were created with.
C1_Conservation == Total(accounts) = Total(created)

\* C2 (non-negativity): every committed balance is >= 0, and the transfers
\* that succeeded out of an account which received nothing were not called
\* with more, together, than the balance the account was created with: two
\* transfers out of one source whose amounts together exceed its balance
\* never both succeed.
C2_NonNegativity ==
    /\ \A a \in DOMAIN accounts : accounts[a] >= 0
    /\ \A a \in DOMAIN accounts :
          SucceededIn(a) = {} => RequestedOut(a) <= created[a]

\* C4 (audit completeness): a returned call with distinct source and
\* destination whose outcome is success, insufficient funds or account not
\* found has exactly one row in the committed transactions log: succeeded for
\* success, failed with the matching error_message otherwise.
C4_AuditCompleteness ==
    \A p \in Procs :
        (Returned(p) /\ srcID[p] # dstID[p]
            /\ result[p] \in {"ok", "insufficient", "notfound"})
        => /\ Cardinality(RowsOfCall(p)) = 1
           /\ \A k \in RowsOfCall(p) :
                /\ transactions[k].src = srcID[p]
                /\ transactions[k].dst = dstID[p]
                /\ result[p] = "ok" =>
                      transactions[k].status = "succeeded"
                /\ result[p] = "insufficient" =>
                      /\ transactions[k].status = "failed"
                      /\ transactions[k].error = "insufficient funds"
                /\ result[p] = "notfound" =>
                      /\ transactions[k].status = "failed"
                      /\ transactions[k].error = "account not found"

\* The row p's next SELECT ... FOR UPDATE asks for.
NextId(p) == SortedIds(srcID[p], dstID[p])[i[p]]

\* p waits for a row lock that q holds.
WaitsFor(p, q) ==
    /\ p # q
    /\ pc[p] = "select"
    /\ NextId(p) \in DOMAIN accounts
    /\ rowLock[NextId(p)] = q

RECURSIVE WaitPath(_, _, _)
WaitPath(p, q, n) ==
    /\ n > 0
    /\ \/ WaitsFor(p, q)
       \/ \E r \in Procs : WaitsFor(p, r) /\ WaitPath(r, q, n - 1)

NoWaitCycle == \A p \in Procs : ~WaitPath(p, p, Cardinality(Procs))

\* C3 (deadlock freedom): no reachable state has transfers waiting for each
\* other's row locks in a cycle, and under fair scheduling every call of
\* Transfer that has started returns.
C3_DeadlockFreedom ==
    /\ []NoWaitCycle
    /\ \A p \in Procs : InCall(p) ~> Returned(p)

\* Two transfers in opposite directions between the same two accounts, one
\* holding a row lock the other waits for.
C3_Witness ==
    \E p, q \in Procs :
        /\ WaitsFor(p, q)
        /\ srcID[p] = dstID[q] /\ dstID[p] = srcID[q]
        /\ InCall(q)

\* A step in which p's transaction commits and Transfer returns success.
CommitStep(p) == pc[p] = "commit" /\ pc'[p] = "done" /\ result'[p] = "ok"

IsSucceeded(r) == r.status = "succeeded"

\* C5 (success-path atomicity): a committed balance changes, or a succeeded
\* row appears in the committed log, only in a step that commits one transfer
\* and returns success, and that step publishes the debit, the credit and
\* the succeeded row together;
\* no step lowers a balance without raising another; a call that failed at a
\* storage step leaves no row of its own in the log.
C5_Atomicity ==
    /\ [][(\/ accounts' # accounts
            \/ SelectSeq(transactions', IsSucceeded)
                    # SelectSeq(transactions, IsSucceeded)) =>
            \E p \in Procs :
                /\ CommitStep(p)
                /\ Len(txRows[p]) = 1
                /\ txRows[p][1].status = "succeeded"
                /\ transactions' = Append(transactions, txRows[p][1])
                /\ DOMAIN txAccounts[p] = {srcID[p], dstID[p]}
                /\ \A a \in DOMAIN accounts :
                      accounts'[a] = IF a \in {srcID[p], dstID[p]}
                                       THEN txAccounts[p][a] ELSE accounts[a]]_vars
    /\ [][\A a \in DOMAIN accounts :
            accounts'[a] < accounts[a] =>
                \E b \in DOMAIN accounts : accounts'[b] > accounts[b]]_vars
    /\ [](\A p \in Procs : (Returned(p) /\ Faulted(p)) => RowsOfCall(p) = {})

\* A call whose Commit failed after both UPDATEs and the INSERT has returned
\* an error.
C5_Witness ==
    \E p \in Procs : Returned(p) /\ faultAt[p] = "commit" /\ result[p] = "error"

\* C6 (effect of a successful transfer): the step in which a transfer commits
\* and returns success leaves the source at the balance read under lock minus
\* the amount and the destination at the balance read under lock plus the
\* amount.
C6_TransferEffect ==
    [][\A p \in Procs :
          CommitStep(p) =>
              /\ accounts'[srcID[p]] = balances[p][srcID[p]] - amount[p]
              /\ accounts'[dstID[p]] = balances[p][dstID[p]] + amount[p]]_vars

\* C7 (insufficient funds): a call that has read both balances under lock
\* and finds the source's below the amount returns insufficient funds, and
\* when it returns the committed balances of source and destination are
\* still the ones it read; its return changes no balance.
C7_InsufficientFunds ==
    /\ [][\A p \in Procs :
            (pc[p] = "funds" /\ pc'[p] # "funds"
                /\ balances[p][srcID[p]] < amount[p])
            => (pc'[p] = "rollback" /\ result'[p] = "insufficient")]_vars
    /\ [][\A p \in Procs :
            (pc[p] = "rollback" /\ result[p] = "insufficient" /\ pc'[p] = "done")
            => /\ result'[p] = "insufficient"
               /\ accounts' = accounts
               /\ accounts[srcID[p]] = balances[p][srcID[p]]
               /\ accounts[dstID[p]] = balances[p][dstID[p]]]_vars

\* A call was rejected for insufficient funds and has returned.
C7_Witness ==
    \E p \in Procs :
        /\ Returned(p) /\ result[p] = "insufficient"
        /\ {srcID[p], dstID[p]} \subseteq DOMAIN accounts
        /\ accounts[srcID[p]] < amount[p]

Missing(id) == id \notin DOMAIN accounts

\* C8 (missing account): a call with a positive amount and distinct ids of
\* which at least one has no account returns account not found, unless a
\* storage step of the call failed first; its return changes no balance, and
\* balances change only when a transfer between two existing accounts
\* commits.
C8_MissingAccount ==
    /\ [](\A p \in Procs :
            (Returned(p) /\ amount[p] > 0 /\ srcID[p] # dstID[p]
                /\ (Missing(srcID[p]) \/ Missing(dstID[p])) /\ ~Faulted(p))
            => result[p] = "notfound")
    /\ [][\A p \in Procs :
            (pc[p] = "rollback" /\ result[p] = "notfound" /\ pc'[p] = "done")
            => (result'[p] = "notfound" /\ accounts' = accounts)]_vars
    /\ [][accounts' # accounts =>
            \E q \in Procs :
                CommitStep(q) /\ ~Missing(srcID[q]) /\ ~Missing(dstID[q])]_vars

\* A call whose missing account is the larger id (so the smaller row was
\* locked first) and one whose missing account is the smaller id and the
\* source have both returned account not found.
C8_Witness ==
    /\ \E p \in Procs :
          /\ Returned(p) /\ result[p] = "notfound"
          /\ Missing(dstID[p]) /\ ~Missing(srcID[p]) /\ dstID[p] > srcID[p]
    /\ \E p \in Procs :
          /\ Returned(p) /\ result[p] = "notfound"
          /\ Missing(srcID[p]) /\ ~Missing(dstID[p]) /\ srcID[p] < dstID[p]

\* One transfer applied alone to committed balances acc.
ApplyAlone(acc, r) ==
    [a \in DOMAIN acc |->
        IF a = r.src THEN RoundToScale(acc[a] - r.requested)
        ELSE IF a = r.dst THEN RoundToScale(acc[a] + r.requested)
        ELSE acc[a]]

RECURSIVE Replay(_, _)
Replay(acc, rows) ==
    IF rows = <<>> THEN acc ELSE Replay(ApplyAlone(acc, Head(rows)), Tail(rows))

\* C9 (serialization on a shared account): a balance a running call has read
\* is still the committed balance of a row the call holds locked (nobody
\* else wrote it since: no lost update), and the committed balances are what
\* the succeeded transfers give when applied one at a time in commit order.
C9_Serialization ==
    /\ \A p \in Procs : \A id \in DOMAIN balances[p] :
          rowLock[id] = p /\ accounts[id] = balances[p][id]
    /\ accounts = Replay(created, SelectSeq(transactions, IsSucceeded))

\* A call holds the lock of an account another call changed and committed,
\* and has read the balance that call left.
C9_Witness ==
    \E p, q \in Procs :
        /\ p # q
        /\ Returned(p) /\ result[p] = "ok" /\ srcID[p] # dstID[p]
        /\ \E id \in DOMAIN balances[q] \cap {srcID[p], dstID[p]} :
              balances[q][id] # created[id]

IdMin(p) == IF srcID[p] < dstID[p] THEN srcID[p] ELSE dstID[p]
IdMax(p) == IF srcID[p] < dstID[p] THEN dstID[p] ELSE srcID[p]

\* C10 (lock order): a call asks for the row lock of the smaller id first,
\* holding no lock, and for the lock of the larger id second; no call holds
\* the lock of its larger id without the lock of its smaller id.
C10_LockOrder ==
    \A p \in Procs :
        /\ (pc[p] = "select" /\ i[p] = 1) =>
              (NextId(p) = IdMin(p) /\ \A id \in Ids : rowLock[id] # p)
        /\ (pc[p] = "select" /\ i[p] = 2) => NextId(p) = IdMax(p)
        /\ (InCall(p) /\ rowLock[IdMax(p)] = p) => rowLock[IdMin(p)] = p

\* A call whose source is the larger id holds the destination's lock and
\* asks for the source's.
C10_Witness ==
    \E p \in Procs :
        /\ pc[p] = "select" /\ i[p] = 2
        /\ srcID[p] > dstID[p]
        /\ rowLock[dstID[p]] = p /\ rowLock[srcID[p]] # p

\* A step in which p calls Transfer.
CallStep(p) == pc[p] \in {"idle", "done"} /\ callNo'[p] = callNo[p] + 1

\* C11 (same-account transfer): a call Transfer(a, a, amount) with amount > 0
\* returns success in the step that makes it: no transaction is opened, no
\* row lock taken, no balance changed, no row inserted (not even the sequence
\* advances), whether or not account a exists.
C11_SameAccountNoOp ==
    [][\A p \in Procs :
          (CallStep(p) /\ srcID'[p] = dstID'[p] /\ amount'[p] > 0)
          => /\ pc'[p] = "done" /\ result'[p] = "ok"
             /\ UNCHANGED <<accounts, transactions, nextSeq, rowLock,
                            txAccounts, txRows>>]_vars

\* A same-account transfer on an existing account and one on an id without
\* an account have both returned success.
C11_Witness ==
    \E p, q \in Procs :
        /\ Returned(p) /\ srcID[p] = dstID[p] /\ amount[p] > 0
        /\ ~Missing(srcID[p]) /\ result[p] = "ok"
        /\ Returned(q) /\ srcID[q] = dstID[q] /\ amount[q] > 0
        /\ Missing(srcID[q]) /\ result[q] = "ok"

\* C12 (no idempotence): when one caller has made the same call
\* Transfer(src, dst, amount) twice in a row, both returned success, the
\* source was created with at least 2*amount and nothing else was
\* transferred, the source is down by 2*amount, the destination up by
\* 2*amount, and the log holds two succeeded rows, one per call.
C12_NotIdempotent ==
    \A p \in Procs :
        LET first == {k \in 1..Len(transactions) :
                         /\ transactions[k].by = p /\ transactions[k].call = 1
                         /\ transactions[k].src = srcID[p]
                         /\ transactions[k].dst = dstID[p]
                         /\ transactions[k].requested = amount[p]
                         /\ transactions[k].status = "succeeded"}
        IN (/\ Returned(p) /\ callNo[p] = 2 /\ result[p] = "ok"
            /\ srcID[p] # dstID[p]
            /\ first # {}
            /\ \A k \in 1..Len(transactions) : transactions[k].by = p
            /\ created[srcID[p]] >= 2 * amount[p])
           => /\ accounts[srcID[p]] = created[srcID[p]] - 2 * amount[p]
              /\ accounts[dstID[p]] = created[dstID[p]] + 2 * amount[p]
              /\ Len(transactions) = 2
              /\ transactions[1].id # transactions[2].id

\* C13 (timeout and storage failure): when the deadline expired or the store
\* faulted at a storage step of a call's open transaction, the call has
\* failed with the wrapped timeout or storage error, its row locks are
\* released, nothing it wrote remains and no row of table transactions
\* records the attempt.
C13_FaultAborts ==
    \A p \in Procs :
        (Returned(p) /\ faultAt[p] \notin {"none", "begin"})
        => /\ result[p] = "error"
           /\ RowsOfCall(p) = {}
           /\ txAccounts[p] = Empty /\ txRows[p] = <<>>
           /\ \A id \in Ids : rowLock[id] # p

\* C14 (error distinguishability): the outcome of a returned call is one of
\* the distinct kinds (success, invalid input, account not found,
\* insufficient funds, internal error), and no fault of a storage step is
\* dropped: a call in which a storage step faulted, the insertion of a failed
\* row included, returns the internal error.
C14_NoFaultDropped ==
    \A p \in Procs :
        Returned(p)
        => /\ result[p] \in {"ok", "invalid", "notfound", "insufficient", "error"}
           /\ (Faulted(p) <=> result[p] = "error")

\* The step in which the INSERT of p's CreateAccount runs without a fault of
\* the store.
InsertAccountStep(p) ==
    pc[p] = "create" /\ pc'[p] = "done" /\ faultAt'[p] # "create"

\* C15 (duplicate account): CreateAccount(id, b) with b >= 0 on an id that
\* has an account fails with the duplicate error and changes no balance; on
\* an id without one it succeeds and the account's balance is b, the others
\* unchanged; and of two CreateAccount calls for the same id at most one has
\* succeeded.
C15_DuplicateAccount ==
    /\ [][\A p \in Procs :
            (InsertAccountStep(p) /\ initial[p] >= 0)
            => IF accountID[p] \in DOMAIN accounts
                 THEN result'[p] = "duplicate" /\ accounts' = accounts
                 ELSE /\ result'[p] = "ok"
                      /\ DOMAIN accounts' = DOMAIN accounts \cup {accountID[p]}
                      /\ accounts'[accountID[p]] = initial[p]
                      /\ \A x \in DOMAIN accounts : accounts'[x] = accounts[x]]_vars
    /\ [](\A p, q \in Procs :
            (/\ p # q /\ op[p] = "create" /\ op[q] = "create"
             /\ accountID[p] = accountID[q]
             /\ Returned(p) /\ Returned(q))
            => ~(result[p] = "ok" /\ result[q] = "ok"))

\* C16 (negative initial balance): a CreateAccount call with a negative
\* initial balance fails as invalid input before any statement is sent to the
\* store, and no account is created by it.
C16_NegativeInitialBalance ==
    \A p \in Procs :
        (Returned(p) /\ op[p] = "create" /\ initial[p] < 0 /\ faultAt[p] # "create")
        => result[p] = "invalid" /\ faultAt[p] = "none"

\* The step in which the SELECT of p's GetAccount runs without a fault of the
\* store.
QueryAccountStep(p) ==
    pc[p] = "get" /\ pc'[p] = "done" /\ faultAt'[p] = "none"

\* Row k of the log is a succeeded transfer naming account id.
Names(k, id) ==
    /\ transactions[k].status = "succeeded"
    /\ id \in {transactions[k].src, transactions[k].dst}

\* C17 (GetBalance result): GetAccount(id) returns ErrAccountNotFound exactly
\* when no account with that id has been created; otherwise it returns the
\* account's committed balance, which is the balance it was created with when
\* no succeeded transfer naming it has committed. Neither entering GetAccount
\* nor its query changes a balance, the log, the sequence or a row lock.
C17_GetBalance ==
    [][\A p \in Procs :
          /\ QueryAccountStep(p)
             => LET id == accountID[p] IN
                /\ result'[p] = "notfound" <=> id \notin DOMAIN created
                /\ id \in DOMAIN created
                   => /\ result'[p] = "ok"
                      /\ balance'[p] = accounts[id]
                      /\ (\A k \in 1..Len(transactions) : ~Names(k, id))
                         => balance'[p] = created[id]
          /\ (QueryAccountStep(p) \/ (CallStep(p) /\ op'[p] = "get"))
             => UNCHANGED <<accounts, transactions, nextSeq, rowLock,
                            txAccounts, txRows, created>>]_vars

\* One GetAccount has returned the balance a committed transfer left, which is
\* not the balance the account was created with, and another has returned
\* ErrAccountNotFound.
C17_Witness ==
    \E p, q \in Procs :
        /\ Returned(p) /\ op[p] = "get" /\ result[p] = "ok"
        /\ balance[p] = accounts[accountID[p]]
        /\ balance[p] # created[accountID[p]]
        /\ Returned(q) /\ op[q] = "get" /\ result[q] = "notfound"
        /\ accountID[q] \notin DOMAIN accounts

\* Caller p handles (or has last handled) a POST /transactions whose body
\* decoded.
IsTransaction(p) ==
    request[p].handler = "CreateTransaction" /\ request[p].body # Malformed

\* Caller p handles (or has last handled) a POST /accounts whose body decoded.
IsAccount(p) ==
    request[p].handler = "CreateAccount" /\ request[p].body # Malformed

\* The body of p's POST /transactions obeys every rule of the request layer.
ValidTransaction(p) ==
    LET b == request[p].body IN
    b[1] # 0 /\ b[2] # 0 /\ b[1] # b[2] /\ b[3] > 0

\* The body of p's POST /accounts obeys every rule of the request layer.
ValidAccount(p) ==
    LET b == request[p].body IN b[1] # 0 /\ b[2] >= 0

\* C18 (HTTP outcome mapping of POST /transactions): once the response to a
\* well-formed, valid request is written, Transfer has returned and the
\* status is 200 if it returned success, 404 for ErrAccountNotFound, 409 for
\* ErrInsufficientFunds and 500 for the wrapped error of a timeout or a
\* storage fault; Transfer returns nothing else to the handler.
C18_TransactionStatus ==
    \A p \in Procs :
        (IsTransaction(p) /\ ValidTransaction(p) /\ status[p] # 0)
        => /\ Returned(p) /\ op[p] = "transfer"
           /\ result[p] \in {"ok", "notfound", "insufficient", "error"}
           /\ result[p] = "ok" <=> status[p] = 200
           /\ result[p] = "notfound" <=> status[p] = 404
           /\ result[p] = "insufficient" <=> status[p] = 409
           /\ result[p] = "error" <=> status[p] = 500

\* One request was answered 404 for a missing account and another 500 after
\* a fault inside Transfer.
C18_Witness ==
    \E p, q \in Procs :
        /\ IsTransaction(p) /\ ValidTransaction(p) /\ status[p] = 404
        /\ result[p] = "notfound"
        /\ IsTransaction(q) /\ ValidTransaction(q) /\ status[q] = 500
        /\ result[q] = "error" /\ faultAt[q] \notin {"none", "constraint"}

\* C19 (validation gate): in the step in which a handler takes a request that
\* breaks a rule (POST /accounts with account_id 0 or a negative
\* initial_balance; POST /transactions with a zero id, source equal to
\* destination, or amount <= 0) the response is 400 and nothing of the store
\* changes: no call is started, no balance, row or lock touched. So every
\* Transfer the handlers start has distinct non-zero ids and a positive
\* amount, and every CreateAccount a non-zero id and a non-negative balance.
C19_ValidationGate ==
    /\ [][\A p \in Procs :
            (/\ requests' = requests + 1
             /\ request'[p] # request[p] \/ status'[p] # status[p]
             /\ \/ (IsTransaction(p) /\ ~ValidTransaction(p))'
                \/ (IsAccount(p) /\ ~ValidAccount(p))')
            => status'[p] = 400 /\ UNCHANGED storeVars]_vars
    /\ [](\A p \in Procs :
            /\ op[p] = "transfer"
               => srcID[p] # 0 /\ dstID[p] # 0 /\ srcID[p] # dstID[p] /\ amount[p] > 0
            /\ op[p] = "create" => accountID[p] # 0 /\ initial[p] >= 0)

\* A same-account transfer and an account with a negative balance were both
\* answered 400 by handlers that never called the store.
C19_Witness ==
    \E p, q \in Procs :
        /\ IsTransaction(p) /\ request[p].body[1] = request[p].body[2]
        /\ request[p].body[1] # 0 /\ request[p].body[3] > 0
        /\ status[p] = 400 /\ callNo[p] = 0
        /\ IsAccount(q) /\ request[q].body[1] # 0 /\ request[q].body[2] < 0
        /\ status[q] = 400 /\ callNo[q] = 0
        /\ accounts = InitialAccounts /\ transactions = <<>>

\* C20 (TransactionRequest.Validate): for every decoded body the handler
\* validated, Validate returned no error if and only if both ids are
\* non-zero, they differ and the amount is positive; otherwise it returned
\* the error of the first rule broken, in the order zero id, same source and
\* destination, non-positive amount.
C20_ValidateTransaction ==
    \A p \in Procs :
        IsTransaction(p)
        => LET s == request[p].body[1]
               d == request[p].body[2]
               a == request[p].body[3]
               err == request[p].err
           IN /\ err = "nil" <=> (s # 0 /\ d # 0 /\ s # d /\ a > 0)
              /\ (s = 0 \/ d = 0) => err = "ErrInvalidAccountID"
              /\ (s # 0 /\ d # 0 /\ s = d) => err = "ErrSameSourceDestination"
              /\ (s # 0 /\ d # 0 /\ s # d /\ a <= 0) => err = "ErrInvalidAmount"

\* Validate has run on a body that breaks all three rules and on one that
\* breaks the last two, returning the error of the first rule broken.
C20_Witness ==
    \E p, q \in Procs :
        /\ IsTransaction(p) /\ request[p].body = <<0, 0, 0>>
        /\ request[p].err = "ErrInvalidAccountID"
        /\ IsTransaction(q) /\ request[q].body = <<2, 2, 0>>
        /\ request[q].err = "ErrSameSourceDestination"

\* C21 (CreateAccountRequest.Validate): for every decoded body of
\* POST /accounts the handler validated, Validate returned no error if and
\* only if account_id is not zero and initial_balance is not negative; a body
\* with initial_balance zero and a non-zero id passes and reaches the store.
C21_ValidateCreateAccount ==
    \A p \in Procs :
        IsAccount(p)
        => LET id == request[p].body[1]
               b == request[p].body[2]
           IN /\ request[p].err = "nil" <=> (id # 0 /\ b >= 0)
              /\ (id # 0 /\ b = 0)
                 => /\ request[p].err = "nil"
                    /\ status[p] # 400
                    /\ op[p] = "create" /\ initial[p] = 0

\* An account was created over HTTP with a balance of zero (201), and a body
\* with a negative balance was refused.
C21_Witness ==
    \E p, q \in Procs :
        /\ IsAccount(p) /\ request[p].body = <<1, 0>>
        /\ request[p].err = "nil" /\ status[p] = 201
        /\ 1 \in DOMAIN accounts /\ accounts[1] = 0
        /\ IsAccount(q) /\ request[q].body[2] < 0
        /\ request[q].err = "ErrInvalidInitialBalance"

\* C22 (no dirty read): the query of a GetAccount that runs while a
\* transaction has written the account's row and not yet ended returns the
\* committed balance, which that transaction has not changed so far; if the
\* transaction wrote another value, the query does not return it. What it
\* returns is one of the balances committed for the account so far.
C22_NoDirtyRead ==
    /\ [][\A p \in Procs :
            (QueryAccountStep(p) /\ accountID[p] \in DOMAIN accounts)
            => /\ balance'[p] = accounts[accountID[p]]
               /\ \A q \in Procs :
                    (accountID[p] \in DOMAIN txAccounts[q]
                     /\ txAccounts[q][accountID[p]] # accounts[accountID[p]])
                    => balance'[p] # txAccounts[q][accountID[p]]]_vars
    /\ [](\A p \in Procs :
            (Returned(p) /\ op[p] = "get" /\ result[p] = "ok")
            => balance[p] \in
                 {created[accountID[p]]} \cup
                 {Replay(created, SubSeq(SelectSeq(transactions, IsSucceeded), 1, n))[accountID[p]] :
                     n \in 1..Len(SelectSeq(transactions, IsSucceeded))})

\* A GetAccount has returned the committed balance of an account while a
\* transfer that has written another balance to its row is still open.
C22_Witness ==
    \E p, q \in Procs :
        /\ Returned(p) /\ op[p] = "get" /\ result[p] = "ok"
        /\ InCall(q) /\ op[q] = "transfer"
        /\ accountID[p] \in DOMAIN txAccounts[q]
        /\ txAccounts[q][accountID[p]] # balance[p]
        /\ balance[p] = accounts[accountID[p]]

\* C23 (lock release on every exit): a caller that is not inside Transfer
\* holds no row lock and has no open transaction, whichever way its last
\* call returned (success, account not found, insufficient funds, error); so
\* a transfer that waits for a row lock waits for a call that is still
\* running, never for one that has returned.
C23_LockRelease ==
    \A p \in Procs :
        ~InCall(p)
        => /\ \A id \in Ids : rowLock[id] # p
           /\ txAccounts[p] = Empty /\ txRows[p] = <<>>
           /\ \A q \in Procs : ~WaitsFor(q, p)

\* A call that held the lock of an account has returned without committing,
\* and a later call of the other caller holds the lock of the same account.
C23_Witness ==
    \E p, q \in Procs : \E id \in DOMAIN accounts :
        /\ Returned(p) /\ result[p] \in {"notfound", "insufficient"}
        /\ id \in {srcID[p], dstID[p]} /\ srcID[p] # dstID[p]
        /\ id = SortedIds(srcID[p], dstID[p])[1]
        /\ InCall(q) /\ rowLock[id] = q
        /\ calls = 2 /\ callNo[p] = 1 /\ callNo[q] = 1

\* C24 (non-positive amount at the engine): a call of Transfer with
\* amount <= 0 returns the error in the step that makes it, for distinct ids
\* and for src = dst alike: no transaction is opened, no row lock taken, no
\* balance changed, no row written, the sequence not advanced.
C24_NonPositiveAmount ==
    [][\A p \in Procs :
          (CallStep(p) /\ op'[p] = "transfer" /\ amount'[p] <= 0)
          => /\ pc'[p] = "done" /\ result'[p] = "invalid"
             /\ UNCHANGED <<accounts, transactions, nextSeq, rowLock,
                            txAccounts, txRows>>]_vars

\* A transfer of amount zero between two accounts and a transfer of a
\* negative amount from an account to itself have both returned the error.
C24_Witness ==
    \E p, q \in Procs :
        /\ Returned(p) /\ srcID[p] # dstID[p] /\ amount[p] = 0
        /\ result[p] = "invalid"
        /\ Returned(q) /\ srcID[q] = dstID[q] /\ amount[q] < 0
        /\ result[q] = "invalid"
        /\ accounts = created /\ transactions = <<>> /\ nextSeq = 1

\* The step in which p's funds check runs.
FundsStep(p) == pc[p] = "funds" /\ pc'[p] # "funds"

\* C25 (boundary of the funds check): a transfer whose amount equals the
\* balance read from the locked source row passes the funds check, and when
\* it commits the source is left with a balance of 0; a transfer whose amount
\* is greater than that balance is rejected as insufficient.
C25_FundsBoundary ==
    [][\A p \in Procs :
          /\ (FundsStep(p) /\ amount[p] = balances[p][srcID[p]])
             => pc'[p] = "updsrc" /\ result'[p] # "insufficient"
          /\ (FundsStep(p) /\ amount[p] > balances[p][srcID[p]])
             => pc'[p] = "rollback" /\ result'[p] = "insufficient"
          /\ (CommitStep(p) /\ amount[p] = balances[p][srcID[p]])
             => accounts'[srcID[p]] = 0]_vars

\* A transfer of exactly the source's balance has succeeded and left it at 0,
\* and a transfer of more than the source's balance was rejected.
C25_Witness ==
    \E p, q \in Procs :
        /\ Returned(p) /\ result[p] = "ok" /\ srcID[p] # dstID[p]
        /\ amount[p] = created[srcID[p]] /\ accounts[srcID[p]] = 0
        /\ callNo[p] = 1 /\ calls = 2
        /\ Returned(q) /\ result[q] = "insufficient"

\* The accounts p's call names.
Pair(p) == {srcID[p], dstID[p]}

\* p's SELECT ... FOR UPDATE cannot proceed.
Blocked(p) ==
    /\ pc[p] = "select"
    /\ NextId(p) \in DOMAIN accounts
    /\ ~RowLockFree(NextId(p), p)

\* C26 (frame of Transfer): a step changes the balance of an account only
\* when it commits a transfer naming that account as source or destination;
\* a call holds row locks only on its own source and destination; a call is
\* blocked on a row lock only while a running call names one of its
\* accounts, so transfers over disjoint pairs never wait for each other; and
\* a first call that ran next to nothing but a call over a disjoint pair and
\* met no fault has the result and leaves its two balances as it would have
\* alone on the accounts as created.
C26_Frame ==
    /\ [][\A id \in DOMAIN accounts :
            accounts'[id] # accounts[id]
            => \E p \in Procs : CommitStep(p) /\ id \in Pair(p)]_vars
    /\ [](\A p \in Procs :
            /\ \A id \in Ids : rowLock[id] = p => id \in Pair(p)
            /\ Blocked(p)
               => \E q \in Procs \ {p} : InCall(q) /\ Pair(q) \cap Pair(p) # {}
            /\ (/\ Returned(p) /\ ~Faulted(p) /\ callNo[p] = 1
                /\ \A q \in Procs \ {p} :
                      callNo[q] = 0 \/ (callNo[q] = 1 /\ Pair(q) \cap Pair(p) = {}))
               => LET alone == ApplyAlone(created,
                                  [src |-> srcID[p], dst |-> dstID[p],
                                   requested |-> amount[p]])
                  IN IF created[srcID[p]] < amount[p]
                       THEN /\ result[p] = "insufficient"
                            /\ \A id \in Pair(p) : accounts[id] = created[id]
                       ELSE /\ result[p] = "ok"
                            /\ \A id \in Pair(p) : accounts[id] = alone[id])

\* Two transfers over disjoint pairs each hold the row locks of their own
\* pair at the same time.
C26_Witness ==
    \E p, q \in Procs :
        /\ p # q /\ Pair(p) \cap Pair(q) = {}
        /\ pc[p] \in {"funds", "updsrc", "upddst", "insert", "commit"}
        /\ pc[q] \in {"funds", "updsrc", "upddst", "insert", "commit"}
        /\ \A id \in Pair(p) : rowLock[id] = p
        /\ \A id \in Pair(q) : rowLock[id] = q

\* C27 (append-only log): every step, of Transfer, CreateAccount or
\* GetAccount, leaves the committed rows of table transactions as they were
\* and at most appends rows after them; the ids of the committed rows are
\* pairwise different, increase in commit order and are below the next value
\* of the sequence, which never goes back, so no id is used twice.
C27_AppendOnly ==
    /\ [][/\ Len(transactions') >= Len(transactions)
          /\ SubSeq(transactions', 1, Len(transactions)) = transactions
          /\ nextSeq' >= nextSeq]_vars
    /\ [](\A k \in 1..Len(transactions) :
            /\ transactions[k].id < nextSeq
            /\ \A j \in 1..Len(transactions) :
                  j < k => transactions[j].id < transactions[k].id)

\* The log holds two committed rows, and a CreateAccount and a GetAccount
\* have run since the first was committed without touching it.
C27_Witness ==
    /\ Len(transactions) = 2
    /\ \E p \in Procs : Returned(p) /\ op[p] \in {"create", "get"}
                        /\ callNo[p] = 2

\* C28 (account lifecycle): an account that exists exists after every step
\* (a step adds an account only as the INSERT of a CreateAccount for its id),
\* and its committed balance changes only in the step that commits a
\* succeeded transfer naming it as source or destination; so the INSERT of a
\* refused CreateAccount, a GetAccount and the return of a rejected or
\* aborted transfer leave every balance as it was.
C28_AccountLifecycle ==
    [][/\ DOMAIN accounts \subseteq DOMAIN accounts'
       /\ \A id \in DOMAIN accounts' \ DOMAIN accounts :
             \E p \in Procs : InsertAccountStep(p) /\ accountID[p] = id
                              /\ result'[p] = "ok"
       /\ \A id \in DOMAIN accounts :
             accounts'[id] # accounts[id]
             => \E p \in Procs :
                   /\ CommitStep(p) /\ id \in Pair(p)
                   /\ Len(transactions') = Len(transactions) + 1
                   /\ LET row == transactions'[Len(transactions')]
                      IN IsSucceeded(row) /\ id \in {row.src, row.dst}
       /\ \A p \in Procs :
             (\/ InsertAccountStep(p) /\ result'[p] # "ok"
              \/ QueryAccountStep(p)
              \/ pc[p] = "rollback" /\ pc'[p] = "done")
             => accounts' = accounts]_vars

\* An account created by CreateAccount is still there with the balance it
\* was created with after a second CreateAccount for its id was refused and a
\* transfer naming it was rejected or aborted.
C28_Witness ==
    \E p, q \in Procs : \E id \in DOMAIN accounts :
        /\ id \notin DOMAIN InitialAccounts
        /\ accounts[id] = created[id]
        /\ Returned(p) /\ op[p] = "create" /\ accountID[p] = id
        /\ result[p] = "duplicate"
        /\ Returned(q) /\ op[q] = "transfer" /\ id \in Pair(q)
        /\ result[q] \in {"insufficient", "error"}

\* C29 (well-formed audit records): every committed row of table
\* transactions has amount > 0 and a source different from its destination;
\* its status is 'succeeded' with no error_message, or 'failed' with
\* error_message 'account not found' or 'insufficient funds'; and the source
\* and the destination of every 'succeeded' row are accounts that exist.
C29_WellFormedRecords ==
    \A k \in 1..Len(transactions) :
        LET row == transactions[k] IN
        /\ row.amount > 0
        /\ row.src # row.dst
        /\ \/ row.status = "succeeded" /\ row.error = "null"
           \/ row.status = "failed"
              /\ row.error \in {"account not found", "insufficient funds"}
        /\ row.status = "succeeded"
           => row.src \in DOMAIN accounts /\ row.dst \in DOMAIN accounts

\* The log holds the row of a committed transfer, and a transfer whose amount the column rounds to zero was
\* refused by the CHECK and left no row.
C29_Witness ==
    /\ Len(transactions) = 1
    /\ \E p \in Procs :
          /\ Returned(p) /\ op[p] = "transfer" /\ faultAt[p] = "constraint"
          /\ amount[p] > 0 /\ RoundToScale(amount[p]) = 0
          /\ RowsOfCall(p) = {}

====
